---- MODULE Spec2Model ----
(***************************************************************************)
(* Model of the flaskchatserver repository.                                *)
(*                                                                         *)
(*   src/app.py  the HTTP gateway: /, /videos, /ask, /ask-streaming and    *)
(*               the OPTIONS preflight; load_video_context, create_prompt  *)
(*               and the streaming generator stream_gemini_response.       *)
(*   src/ct.py   the thumbnail batch script.                               *)
(*                                                                         *)
(* Strings the code takes apart (file names, titles) are sequences of      *)
(* one-character strings. The service handles one request at a time; the   *)
(* data directory and the upstream model are the environment.              *)
(***************************************************************************)
EXTENDS Naturals, Sequences, FiniteSets, TLC

VARIABLES
    dirExists,            \* os.path.isdir(JSON_DATA_DIR)
    fs,                   \* content of the data directory: file name -> kind
    req,                  \* the request being handled
    pc,                   \* where its handler is
    resp,                 \* the HTTP response, once decided
    parsed,               \* request.get_json() was called on this request
    listed,               \* os.listdir() was called on this request
    opened,               \* the paths handed to open() on this request
    loadResult,           \* how load_video_context ended on this request
    prevLoad,             \* the file and document the previous request loaded, if any
    ctx,                  \* video_context
    prompt,               \* the prompt built by create_prompt
    modelCalls,           \* calls of model.generate_content on this request
    chunks,               \* the upstream chunks read so far by the generator
    emitted,              \* what the generator has yielded so far
    upstream,             \* the upstream stream: unopened, open, ended, failed
    ctPc,                 \* ct.py: position of the script
    ctI,                  \* ct.py: number of catalog entries the loop has taken
    attempts,             \* ct.py: entries subprocess.run was invoked for
    failLog,              \* ct.py: entries reported by the except branch
    html_thumbnail_paths  \* ct.py: the collected list

serverVars == <<dirExists, fs, req, pc, resp, parsed, listed, opened, loadResult,
                prevLoad, ctx, prompt, modelCalls, chunks, emitted, upstream>>
ctVars == <<ctPc, ctI, attempts, failLog, html_thumbnail_paths>>
vars == <<serverVars, ctVars>>

----------------------------------------------------------------------------
(* Bounds of the model.                                                    *)

\* longest video_file name a request carries (besides the tracked files)
MaxNameLen == 2
\* most chunks the upstream stream delivers before it ends or fails
MaxChunks == 2

----------------------------------------------------------------------------
(* Strings as sequences of characters.                                     *)

Chars == {"a", ".", "/"}

RECURSIVE SeqsUpTo(_)
SeqsUpTo(n) ==
    IF n = 0 THEN {<< >>}
    ELSE LET shorter == SeqsUpTo(n - 1)
         IN  shorter \cup {Append(s, c) : s \in {t \in shorter : Len(t) = n - 1}, c \in Chars}

JSON_DATA_DIR == <<"j", "s", "o", "n">>

DotJson == <<".", "j", "s", "o", "n">>

\* The files the data directory may hold (every other name is absent).
JsonFile == <<"a">> \o DotJson
PlainFile == <<"a">>
TrackedFiles == {JsonFile, PlainFile}

\* What a directory entry can be: nothing, a subdirectory, a file that is not
\* JSON, a file holding one of two JSON documents.
Kinds == {"absent", "dir", "invalid", "doc1", "doc2"}
KindsOf(f) == IF f = PlainFile THEN Kinds ELSE {"absent", "doc1"}

Names == (SeqsUpTo(MaxNameLen) \ {<< >>}) \cup TrackedFiles

\* str.rfind(sep): the last index of sep in p, 0 when there is none
RECURSIVE rfind(_, _)
rfind(p, sep) ==
    IF p = << >> THEN 0
    ELSE IF p[Len(p)] = sep THEN Len(p)
    ELSE rfind(SubSeq(p, 1, Len(p) - 1), sep)

\* posixpath.basename: what follows the last "/"
basename(p) == SubSeq(p, rfind(p, "/") + 1, Len(p))

\* posixpath.join(a, b) for a non-empty a that does not end in "/"
join(a, b) == IF b # << >> /\ b[1] = "/" THEN b ELSE a \o <<"/">> \o b

\* str.endswith
endswith(s, suffix) ==
    /\ Len(s) >= Len(suffix)
    /\ SubSeq(s, Len(s) - Len(suffix) + 1, Len(s)) = suffix

----------------------------------------------------------------------------
(* The Context Loader and the Prompt Builder.                              *)

KindOfEntry(fsys, name) == IF name \in DOMAIN fsys THEN fsys[name] ELSE "absent"

\* open(filepath) followed by json.load(f): the exception raised, or "ok".
\* "." and ".." always name directories; nothing exists below a missing
\* data directory.
open_and_parse(name, fsys, dExists) ==
    IF ~dExists THEN "FileNotFoundError"
    ELSE IF name \in {<< >>, <<".">>, <<".", ".">>} THEN "IsADirectoryError"
    ELSE CASE KindOfEntry(fsys, name) = "absent"  -> "FileNotFoundError"
           [] KindOfEntry(fsys, name) = "dir"     -> "IsADirectoryError"
           [] KindOfEntry(fsys, name) = "invalid" -> "JSONDecodeError"
           [] OTHER                               -> "ok"

\* json.dumps(video_data, indent=2) of the parsed document
dumps(doc) == [json |-> doc, indent |-> 2]

NoCtx == [json |-> "none", indent |-> 0]

NoLoad == [name |-> << >>, json |-> "none"]

\* load_video_context with the context of the previous request kept: when
\* that request loaded the same file, its document is returned unread
load_video_context_cached(video_file, fsys, dExists) ==
    IF video_file.tag # "str"
    THEN [result |-> "TypeError", paths |-> << >>, value |-> NoCtx]
    ELSE IF basename(video_file.name) # video_file.name
    THEN [result |-> "ValueError", paths |-> << >>, value |-> NoCtx]
    ELSE IF prevLoad.name = video_file.name
    THEN [result |-> "ok", paths |-> << >>, value |-> dumps(prevLoad.json)]
    ELSE LET r == open_and_parse(video_file.name, fsys, dExists)
         IN  [result |-> r,
              paths  |-> <<join(JSON_DATA_DIR, video_file.name)>>,
              value  |-> IF r = "ok" THEN dumps(KindOfEntry(fsys, video_file.name))
                         ELSE NoCtx]

\* load_video_context(filename): result "ok" with the context string, or the
\* exception raised, and the paths it handed to open() on the way.
\* A video_file that is no string makes os.path.basename raise TypeError.
load_video_context(video_file, fsys, dExists) ==
    IF video_file.tag # "str"
    THEN [result |-> "TypeError", paths |-> << >>, value |-> NoCtx]
    ELSE IF basename(video_file.name) # video_file.name
    THEN [result |-> "ValueError", paths |-> << >>, value |-> NoCtx]
    ELSE LET filepath == join(JSON_DATA_DIR, video_file.name)
             r == open_and_parse(video_file.name, fsys, dExists)
         IN  [result |-> r,
              paths  |-> <<filepath>>,
              value  |-> IF r = "ok" THEN dumps(KindOfEntry(fsys, video_file.name))
                         ELSE NoCtx]

NoPrompt == [instructions |-> "none", context |-> NoCtx, question |-> "absent"]

\* create_prompt: the fixed instruction block, the context, the question
create_prompt(question, video_context_string) ==
    [instructions |-> "fixed", context |-> video_context_string, question |-> question]

----------------------------------------------------------------------------
(* Requests and responses.                                                 *)

Routes == {"/", "/videos", "/ask", "/ask-streaming"}
HttpMethods == {"GET", "POST", "OPTIONS"}

\* the methods= list of each @app.route
RouteMethods(route) ==
    IF route \in {"/ask", "/ask-streaming"} THEN {"POST", "OPTIONS"}
    ELSE {"GET", "OPTIONS"}

NoFile == [tag |-> "absent", name |-> << >>]

\* the value under 'video_file': missing, falsy ("" or null), truthy but no
\* string (a number, a list), or a non-empty string
VideoFileValues ==
    {[tag |-> t, name |-> << >>] : t \in {"absent", "falsy", "nonstring"}}
        \cup {[tag |-> "str", name |-> n] : n \in Names}

\* the value under 'question': missing, falsy, or truthy
QuestionValues == {"absent", "falsy", "truthy"}

\* Request bodies. malformed: not parseable as JSON; notjson: the content type
\* is not JSON; falsy: JSON null, {}, [], 0 or ""; nonobject: a truthy JSON
\* value that is no object; object: a non-empty JSON object.
PlainBody(k) == [kind |-> k, question |-> "absent", video_file |-> NoFile]

ObjectBody(q, v) == [kind |-> "object", question |-> q, video_file |-> v]

\* Every kind of body; every video_file value beside a truthy question, and
\* one of each tag beside a missing or falsy one.
Bodies ==
    {PlainBody(k) : k \in {"malformed", "notjson", "falsy", "nonobject"}}
        \cup {ObjectBody("truthy", v) : v \in VideoFileValues}
        \cup {ObjectBody(q, v) : q \in {"absent", "falsy"},
                                 v \in {w \in VideoFileValues :
                                          w.tag = "str" => w.name = PlainFile}}

\* The body a request carries where no handler reads one.
UnreadBodies == {PlainBody("falsy"), PlainBody("malformed"),
                 ObjectBody("truthy", [tag |-> "str", name |-> PlainFile])}

Requests ==
    [route : {"/ask", "/ask-streaming"}, method : {"POST"}, body : Bodies]
        \cup [route : Routes, method : {"GET", "OPTIONS"}, body : UnreadBodies]
        \cup [route : {"/", "/videos"}, method : {"POST"}, body : UnreadBodies]

NoReq == [route |-> "/", method |-> "GET",
          body |-> [kind |-> "falsy", question |-> "absent", video_file |-> NoFile]]

NoResp == [status |-> 0, kind |-> "none", headers |-> {}, payload |-> "none", files |-> {}]

\* jsonify(...), status
jsonify(kind, payload, status) ==
    [status |-> status, kind |-> kind, headers |-> {}, payload |-> payload, files |-> {}]

\* what Flask answers when a view raises or the request is aborted
framework_error(exc, status) ==
    [status |-> status, kind |-> "framework_error", headers |-> {}, payload |-> exc,
     files |-> {}]

CorsHeaders == {"Access-Control-Allow-Origin", "Access-Control-Allow-Headers",
                "Access-Control-Allow-Methods"}

\* handle_preflight(): an empty Response with the three headers added
handle_preflight ==
    [status |-> 200, kind |-> "empty", headers |-> CorsHeaders, payload |-> "none",
     files |-> {}]

\* the same, compared with the lower-case name
IsPreflight_lower(method) == method = "options"

\* request.method == "OPTIONS"
IsPreflight(method) == method = "OPTIONS"

\* request.get_json(): the parsed value, None, or an abort of the request
\* (400 for an unparseable body; for a non-JSON content type None or 415,
\* depending on the Flask version)
get_json(body) ==
    CASE body.kind = "malformed" -> {"BadRequest"}
      [] body.kind = "notjson"   -> {"None", "UnsupportedMediaType"}
      [] OTHER                   -> {"value"}

Truthy(v) == v \in {"truthy", "nonstring", "str"}

\* the same with any() for all()
any_fields(question, video_file) == Truthy(question) \/ Truthy(video_file.tag)

\* all([question, video_file])
all_fields(question, video_file) == Truthy(question) /\ Truthy(video_file.tag)

\* Lines 120-128 and 150-159: the outcome of parsing and checking the body:
\* the response that ends the request, or NoResp when the handler goes on.
validate(outcome, body) ==
    IF outcome = "BadRequest" THEN framework_error("BadRequest", 400)
    ELSE IF outcome = "UnsupportedMediaType"
    THEN framework_error("UnsupportedMediaType", 415)
    ELSE IF outcome = "None" \/ body.kind = "falsy"
    THEN jsonify("json_error", "Invalid request. Expecting JSON body.", 400)
    ELSE IF body.kind = "nonobject" THEN framework_error("AttributeError", 500)
    ELSE IF ~all_fields(body.question, body.video_file)
    THEN jsonify("json_error", "Both 'question' and 'video_file' must be provided.", 400)
    ELSE NoResp

\* the same without ValueError in the tuple
IsContextError_narrow(exc) == exc \in {"FileNotFoundError", "JSONDecodeError"}

\* except (FileNotFoundError, json.JSONDecodeError, ValueError)
IsContextError(exc) == exc \in {"FileNotFoundError", "JSONDecodeError", "ValueError"}

\* the except chain of ask_question
ask_question_except(exc) ==
    IF IsContextError(exc) THEN jsonify("json_error", exc, 404)
    ELSE jsonify("json_error", exc, 500)

\* the except clause of ask_question_streaming; anything else leaves the view
ask_question_streaming_except(exc) ==
    IF IsContextError(exc) THEN jsonify("json_error", exc, 404)
    ELSE framework_error(exc, 500)

\* what the model call (generate_content, then reading .text) can raise
UpstreamExceptions == {"ValueError", "GoogleAPIError"}

----------------------------------------------------------------------------
(* The service: one request at a time.                                     *)

Terminal == {"Idle", "Responded", "Completed", "ErroredMidStream"}

InitServer ==
    /\ dirExists = TRUE
    /\ fs = [f \in TrackedFiles |-> "absent"]
    /\ req = NoReq
    /\ pc = "Idle"
    /\ resp = NoResp
    /\ parsed = FALSE
    /\ listed = FALSE
    /\ opened = << >>
    /\ loadResult = "none"
    /\ prevLoad = NoLoad
    /\ ctx = NoCtx
    /\ prompt = NoPrompt
    /\ modelCalls = 0
    /\ chunks = << >>
    /\ emitted = << >>
    /\ upstream = "unopened"

\* A file of the data directory is added, removed or replaced.
FileChange ==
    /\ dirExists
    /\ \E f \in TrackedFiles : \E k \in KindsOf(f) :
          /\ k # fs[f]
          /\ fs' = [fs EXCEPT ![f] = k]
    /\ UNCHANGED <<ctVars, dirExists, req, pc, resp, parsed, listed, opened, loadResult,
                   prevLoad, ctx, prompt, modelCalls, chunks, emitted, upstream>>

\* The data directory is removed with all it holds, or created empty.
DirChange ==
    /\ dirExists' = ~dirExists
    /\ fs' = [f \in TrackedFiles |-> "absent"]
    /\ UNCHANGED <<ctVars, req, pc, resp, parsed, listed, opened, loadResult,
                   prevLoad, ctx, prompt, modelCalls, chunks, emitted, upstream>>

\* A request arrives once the previous one is over.
Receive ==
    /\ pc \in Terminal
    /\ \E r \in Requests : req' = r
    /\ pc' = "Received"
    /\ resp' = NoResp
    /\ parsed' = FALSE
    /\ listed' = FALSE
    /\ opened' = << >>
    /\ loadResult' = "none"
    /\ prevLoad' = IF loadResult = "ok"
                   THEN [name |-> req.body.video_file.name, json |-> ctx.json]
                   ELSE NoLoad
    /\ ctx' = NoCtx
    /\ prompt' = NoPrompt
    /\ modelCalls' = 0
    /\ chunks' = << >>
    /\ emitted' = << >>
    /\ upstream' = "unopened"
    /\ UNCHANGED <<ctVars, dirExists, fs>>

\* The view ends with response r.
Respond(r) ==
    /\ resp' = r
    /\ pc' = "Responded"

\* methods=[...] of @app.route: any other method never reaches the view
MethodNotAllowed ==
    /\ pc = "Received"
    /\ req.method \notin RouteMethods(req.route)
    /\ Respond(framework_error("MethodNotAllowed", 405))
    /\ UNCHANGED <<ctVars, dirExists, fs, req, parsed, listed, opened, loadResult,
                   prevLoad, ctx, prompt, modelCalls, chunks, emitted, upstream>>

\* read_root()
read_root ==
    /\ pc = "Received"
    /\ req.route = "/"
    /\ req.method \in RouteMethods(req.route)
    /\ IF IsPreflight(req.method)
       THEN Respond(handle_preflight)
       ELSE Respond(jsonify("json_status", "Video Chat API is running.", 200))
    /\ UNCHANGED <<ctVars, dirExists, fs, req, parsed, listed, opened, loadResult,
                   prevLoad, ctx, prompt, modelCalls, chunks, emitted, upstream>>

\* list_videos(): os.listdir may itself fail
list_videos ==
    /\ pc = "Received"
    /\ req.route = "/videos"
    /\ req.method \in RouteMethods(req.route)
    /\ IF IsPreflight(req.method)
       THEN Respond(handle_preflight) /\ listed' = listed
       ELSE IF ~dirExists
       THEN Respond(jsonify("json_error", "Server configuration error", 500))
            /\ listed' = listed
       ELSE /\ listed' = TRUE
            /\ \E ok \in BOOLEAN :
                 IF ok
                 THEN Respond([jsonify("json_list", "files", 200) EXCEPT
                         !.files = {f \in TrackedFiles :
                                      fs[f] # "absent" /\ endswith(f, DotJson)}])
                 ELSE Respond(jsonify("json_error", "OSError", 500))
    /\ UNCHANGED <<ctVars, dirExists, fs, req, parsed, opened, loadResult,
                   prevLoad, ctx, prompt, modelCalls, chunks, emitted, upstream>>

\* Lines 117-128 of ask_question and 147-159 of ask_question_streaming:
\* the preflight check, then request.get_json() and the check of the fields.
ParseAndValidate(route) ==
    /\ pc = "Received"
    /\ req.route = route
    /\ req.method \in RouteMethods(req.route)
    /\ IF IsPreflight(req.method)
       THEN Respond(handle_preflight) /\ parsed' = parsed
       ELSE /\ parsed' = TRUE
            /\ \E outcome \in get_json(req.body) :
                 LET r == validate(outcome, req.body)
                 IN  IF r = NoResp
                     THEN pc' = "Validated" /\ resp' = resp
                     ELSE Respond(r)
    /\ UNCHANGED <<ctVars, dirExists, fs, req, listed, opened, loadResult,
                   prevLoad, ctx, prompt, modelCalls, chunks, emitted, upstream>>

ask_question_validate == ParseAndValidate("/ask")

ask_question_streaming_validate == ParseAndValidate("/ask-streaming")

\* the except clauses around the load in the view for `route`
ExceptOf(route, exc) ==
    IF route = "/ask" THEN ask_question_except(exc)
    ELSE ask_question_streaming_except(exc)

\* video_context = load_video_context(video_file), inside the try of the view
\* for `route`
LoadContext(route) ==
    /\ pc = "Validated"
    /\ req.route = route
    /\ LET l == load_video_context(req.body.video_file, fs, dirExists)
       IN  /\ opened' = opened \o l.paths
           /\ loadResult' = l.result
           /\ ctx' = l.value
           /\ IF l.result = "ok"
              THEN pc' = "ContextLoaded" /\ resp' = resp
              ELSE Respond(ExceptOf(route, l.result))
    /\ UNCHANGED <<ctVars, dirExists, fs, req, parsed, listed,
                   prevLoad, prompt, modelCalls, chunks, emitted, upstream>>

ask_question_load == LoadContext("/ask")

ask_question_streaming_load == LoadContext("/ask-streaming")

\* prompt = create_prompt(question, video_context)
BuildPrompt ==
    /\ pc = "ContextLoaded"
    /\ prompt' = create_prompt(req.body.question, ctx)
    /\ pc' = "PromptBuilt"
    /\ UNCHANGED <<ctVars, dirExists, fs, req, resp, parsed, listed, opened, loadResult,
                   prevLoad, ctx, modelCalls, chunks, emitted, upstream>>

\* response = model.generate_content(prompt); return jsonify(answer=response.text)
ask_question_call ==
    /\ pc = "PromptBuilt"
    /\ req.route = "/ask"
    /\ modelCalls' = modelCalls + 1
    /\ \E out \in {"ok"} \cup UpstreamExceptions :
          IF out = "ok"
          THEN Respond(jsonify("json_answer", "text", 200))
          ELSE Respond(ask_question_except(out))
    /\ UNCHANGED <<ctVars, dirExists, fs, req, parsed, listed, opened, loadResult,
                   prevLoad, ctx, prompt, chunks, emitted, upstream>>

\* The streamed Response is returned: status 200 is committed, the generator
\* has not run yet.
ask_question_streaming_respond ==
    /\ pc = "PromptBuilt"
    /\ req.route = "/ask-streaming"
    /\ resp' = [status |-> 200, kind |-> "stream",
                headers |-> {"Access-Control-Allow-Origin"}, payload |-> "generator",
                files |-> {}]
    /\ pc' = "Streaming"
    /\ UNCHANGED <<ctVars, dirExists, fs, req, parsed, listed, opened, loadResult,
                   prevLoad, ctx, prompt, modelCalls, chunks, emitted, upstream>>

\* the texts a chunk can carry: none, some text, or a .text that raises
ChunkTexts == {"", "x", "y"}
ChunkKinds == ChunkTexts \cup {"raises"}

Fragment(text) == [kind |-> "text", text |-> text]

\* yield f"\nAn error occurred during streaming: {e}"
Notice(exc) == [kind |-> "notice", text |-> exc]

\* the same, the new fragment put before the ones already sent
forward_reordered(out, text) == IF text # "" THEN <<Fragment(text)>> \o out ELSE out

\* if chunk.text: yield chunk.text
forward(out, text) == IF text # "" THEN Append(out, Fragment(text)) ELSE out

\* the same, the exception swallowed without a notice
stream_except_silent(out, exc) == out

\* except Exception as e: ... yield the notice
stream_except(out, exc) == Append(out, Notice(exc))

\* response_stream = model.generate_content(prompt, stream=True)
stream_open ==
    /\ pc = "Streaming"
    /\ upstream = "unopened"
    /\ modelCalls' = modelCalls + 1
    /\ \E out \in {"ok"} \cup UpstreamExceptions :
          IF out = "ok"
          THEN /\ upstream' = "open"
               /\ UNCHANGED <<pc, emitted>>
          ELSE /\ upstream' = "failed"
               /\ emitted' = stream_except(emitted, out)
               /\ pc' = "ErroredMidStream"
    /\ UNCHANGED <<ctVars, dirExists, fs, req, resp, parsed, listed, opened, loadResult,
                   prevLoad, ctx, prompt, chunks>>

\* for chunk in response_stream: the next chunk arrives and is looked at
stream_chunk ==
    /\ pc = "Streaming"
    /\ upstream = "open"
    /\ Len(chunks) < MaxChunks
    /\ \E c \in ChunkKinds :
          /\ chunks' = Append(chunks, c)
          /\ IF c = "raises"
             THEN /\ upstream' = "failed"
                  /\ emitted' = stream_except(emitted, "ValueError")
                  /\ pc' = "ErroredMidStream"
             ELSE /\ emitted' = forward(emitted, c)
                  /\ UNCHANGED <<pc, upstream>>
    /\ UNCHANGED <<ctVars, dirExists, fs, req, resp, parsed, listed, opened, loadResult,
                   prevLoad, ctx, prompt, modelCalls>>

\* for chunk in response_stream: the iterator raises
stream_fail ==
    /\ pc = "Streaming"
    /\ upstream = "open"
    /\ \E exc \in UpstreamExceptions :
          emitted' = stream_except(emitted, exc)
    /\ upstream' = "failed"
    /\ pc' = "ErroredMidStream"
    /\ UNCHANGED <<ctVars, dirExists, fs, req, resp, parsed, listed, opened, loadResult,
                   prevLoad, ctx, prompt, modelCalls, chunks>>

\* for chunk in response_stream: the iterator is exhausted
stream_end ==
    /\ pc = "Streaming"
    /\ upstream = "open"
    /\ upstream' = "ended"
    /\ pc' = "Completed"
    /\ UNCHANGED <<ctVars, dirExists, fs, req, resp, parsed, listed, opened, loadResult,
                   prevLoad, ctx, prompt, modelCalls, chunks, emitted>>

\* the generator, driven by the server writing the response
stream_gemini_response == stream_open \/ stream_chunk \/ stream_fail \/ stream_end

NextServer ==
    \/ FileChange
    \/ DirChange
    \/ Receive
    \/ MethodNotAllowed
    \/ read_root
    \/ list_videos
    \/ ask_question_validate
    \/ ask_question_load
    \/ BuildPrompt
    \/ ask_question_call
    \/ ask_question_streaming_validate
    \/ ask_question_streaming_load
    \/ ask_question_streaming_respond
    \/ stream_gemini_response

InitCtIdle ==
    /\ ctPc = "loop"
    /\ ctI = 0
    /\ attempts = << >>
    /\ failLog = << >>
    /\ html_thumbnail_paths = << >>

Init == InitServer /\ InitCtIdle

Next == NextServer

Spec == Init /\ [][Next]_vars

\* The server keeps pulling the generator while it is streaming.
LiveSpec == Spec /\ WF_vars(stream_gemini_response)

----------------------------------------------------------------------------
(* src/ct.py: the thumbnail batch script.                                  *)

VIDEOS_DATA ==
    <<
       [title |-> <<"M", "e", "d", "i", "c", "a", "l", " ", "T", "r", "a", "i", "n", "i", "n", "g", " ", "D", "a", "y">>,
        src |-> "https://videodata3.s3.us-east-2.amazonaws.com/Medical+Content.mp4"],
       [title |-> <<"B", "i", "k", "e", " ", "F", "o", "o", "t", "a", "g", "e">>,
        src |-> "https://videodata3.s3.us-east-2.amazonaws.com/bike_footage.mp4"],
       [title |-> <<"T", "e", "a", "r", "d", "o", "w", "n">>,
        src |-> "https://videodata3.s3.us-east-2.amazonaws.com/teardown.mp4"],
       [title |-> <<"C", "o", "n", "s", "t", "r", "u", "c", "t", "i", "o", "n">>,
        src |-> "https://videodata3.s3.us-east-2.amazonaws.com/carpentary+floor.mp4"],
       [title |-> <<"M", "e", "d", "i", "c", "a", "l", " ", "C", "o", "n", "t", "e", "n", "t">>,
        src |-> "https://videodata3.s3.us-east-2.amazonaws.com/Medical+Training+Day.mp4"],
       [title |-> <<"B", "u", "i", "l", "d", "i", "n", "g", " ", "F", "P", "V">>,
        src |-> "https://videodata3.s3.us-east-2.amazonaws.com/clip_04_web.mp4"],
       [title |-> <<"N", "i", "g", "h", "t", " ", "M", "a", "r", "k", "e", "t">>,
        src |-> "https://videodata3.s3.us-east-2.amazonaws.com/night_market_cropped.mp4"]
    >>

Alnum ==
    {
     "A", "B", "C", "D", "E", "F", "G", "H", "I", "J", "K", "L", "M", "N",
     "O", "P", "Q", "R", "S", "T", "U", "V", "W", "X", "Y", "Z", "a", "b",
     "c", "d", "e", "f", "g", "h", "i", "j", "k", "l", "m", "n", "o", "p",
     "q", "r", "s", "t", "u", "v", "w", "x", "y", "z", "0", "1", "2", "3",
     "4", "5", "6", "7", "8", "9"
    }

\* re.sub(r'[^A-Za-z0-9]+', '_', s): every run of other characters becomes
\* one underscore; inRun says the previous character was already replaced
RECURSIVE re_sub(_, _)
re_sub(s, inRun) ==
    IF s = << >> THEN << >>
    ELSE IF Head(s) \in Alnum THEN <<Head(s)>> \o re_sub(Tail(s), FALSE)
    ELSE IF inRun THEN re_sub(Tail(s), TRUE)
    ELSE <<"_">> \o re_sub(Tail(s), TRUE)

output_folder == <<"m", "e", "d", "i", "a">>

\* thumb = os.path.join(output_folder, f"{safe}.jpg")
thumb(title) == join(output_folder, re_sub(title, FALSE) \o <<".", "j", "p", "g">>)

\* f'thumbnail: "{thumb}"'
thumbnail_line(title) ==
    <<"t", "h", "u", "m", "b", "n", "a", "i", "l", ":", " ", "\"">>
        \o thumb(title) \o <<"\"">>

\* How subprocess.run(cmd, check=True) can end: exit status 0, a non-zero exit
\* status (CalledProcessError), or the tool cannot be started (OSError, of
\* which FileNotFoundError).
RunOutcomes == {"ok", "CalledProcessError", "OSError"}

\* One pass of the for loop over VIDEOS_DATA. Only CalledProcessError is
\* caught; any other exception ends the script with a traceback.
ct_entry ==
    /\ ctPc = "loop"
    /\ ctI < Len(VIDEOS_DATA)
    /\ ctI' = ctI + 1
    /\ \E out \in RunOutcomes :
          /\ attempts' = Append(attempts, [entry |-> ctI + 1, outcome |-> out])
          /\ CASE out = "ok" ->
                    /\ html_thumbnail_paths' =
                          Append(html_thumbnail_paths,
                                 thumbnail_line(VIDEOS_DATA[ctI + 1].title))
                    /\ UNCHANGED <<ctPc, failLog>>
               [] out = "CalledProcessError" ->
                    /\ failLog' = Append(failLog, ctI + 1)
                    /\ UNCHANGED <<ctPc, html_thumbnail_paths>>
               [] OTHER ->
                    /\ ctPc' = "crashed"
                    /\ UNCHANGED <<failLog, html_thumbnail_paths>>
    /\ UNCHANGED serverVars

\* The loop is over: the collected lines are printed.
ct_summary ==
    /\ ctPc = "loop"
    /\ ctI = Len(VIDEOS_DATA)
    /\ ctPc' = "done"
    /\ UNCHANGED <<ctI, attempts, failLog, html_thumbnail_paths>>
    /\ UNCHANGED serverVars

NextCt == ct_entry \/ ct_summary

\* The batch script alone: the service takes no request.
SpecCt == Init /\ [][NextCt]_vars

----------------------------------------------------------------------------
(* The claims.                                                             *)

AskRoutes == {"/ask", "/ask-streaming"}

IsAskPost == req.route \in AskRoutes /\ req.method = "POST"

IsStreamPost == req.route = "/ask-streaming" /\ req.method = "POST"

StreamPhases == {"Streaming", "Completed", "ErroredMidStream"}

HasSlash(name) == \E i \in 1..Len(name) : name[i] = "/"

\* the texts of the fragments of out that are no error notice
TextsOf(out) ==
    LET t == SelectSeq(out, LAMBDA e : e.kind = "text")
    IN  [i \in 1..Len(t) |-> t[i].text]

NoticesOf(out) == SelectSeq(out, LAMBDA e : e.kind = "notice")

\* the texts of the chunks read that carry one
NonEmptyTexts(cs) == SelectSeq(cs, LAMBDA c : c \notin {"", "raises"})

\* C1 (as claimed, for the bodies that parse to a JSON object): on a POST to
\* /ask-streaming every request that ends before Streaming (a missing field,
\* any failure of load_video_context or create_prompt) ends with a JSON error
\* and status 400 or 404, and from Streaming on the response is the 200 stream.
C1_Claim ==
    /\ (IsStreamPost /\ req.body.kind = "object" /\ pc = "Responded") =>
          (resp.kind = "json_error" /\ resp.status \in {400, 404})
    /\ (IsStreamPost /\ pc \in StreamPhases) =>
          (resp.kind = "stream" /\ resp.status = 200)

\* C1: the phases of a POST to /ask-streaming follow one another in the order
\* Received, Validated, ContextLoaded, PromptBuilt, Streaming, then Completed
\* or ErroredMidStream, and the response does not change once it is decided.
C1_Order ==
    [][IsStreamPost /\ pc' # pc =>
          \/ pc \in Terminal /\ pc' = "Received"
          \/ /\ req' = req
             /\ <<pc, pc'>> \in
                   {<<"Received", "Validated">>, <<"Validated", "ContextLoaded">>,
                    <<"ContextLoaded", "PromptBuilt">>, <<"PromptBuilt", "Streaming">>,
                    <<"Streaming", "Completed">>, <<"Streaming", "ErroredMidStream">>,
                    <<"Received", "Responded">>, <<"Validated", "Responded">>}
             /\ (pc \in StreamPhases => resp' = resp)]_vars

\* C2: once streaming, a failure of the upstream call (on opening the stream,
\* between chunks, or on reading a chunk's text) puts exactly one error notice
\* last in the stream, after the fragments already sent, and ends the
\* generator; a stream that ends normally carries no notice; and a generator
\* that is being pulled always finishes.
C2_Safety ==
    /\ (upstream = "failed") <=> (pc = "ErroredMidStream")
    /\ (upstream = "ended") <=> (pc = "Completed")
    /\ pc = "ErroredMidStream" =>
          /\ Len(emitted) >= 1
          /\ emitted[Len(emitted)].kind = "notice"
          /\ Len(NoticesOf(emitted)) = 1
          /\ Len(emitted) = Len(NonEmptyTexts(chunks)) + 1
    /\ pc \in {"Streaming", "Completed"} => NoticesOf(emitted) = << >>
    /\ pc \notin StreamPhases => emitted = << >>

C2_Theorem ==
    /\ []C2_Safety
    /\ (pc = "Streaming") ~> (pc \in {"Completed", "ErroredMidStream"})

\* C2 witness: the upstream failed after a fragment was sent
C2_Witness ==
    /\ pc = "ErroredMidStream"
    /\ Len(emitted) = 2
    /\ emitted[1].kind = "text"
    /\ emitted[2].kind = "notice"

\* C3: what /ask-streaming has sent is, at every moment, the texts of the
\* upstream chunks read so far, without the empty ones, each once and in the
\* order they arrived.
C3_Theorem ==
    IsStreamPost => TextsOf(emitted) = NonEmptyTexts(chunks)

\* C3 witness: two different fragments were forwarded and the stream ended
C3_Witness ==
    /\ pc = "Completed"
    /\ chunks = <<"x", "y">>
    /\ emitted = <<Fragment("x"), Fragment("y")>>

\* C4: a POST to /ask or /ask-streaming whose JSON object lacks 'question' or
\* 'video_file', or holds a falsy value for one, is answered 400 with a JSON
\* error; the context file is not opened and the model is not called.
C4_Theorem ==
    (/\ IsAskPost
     /\ pc # "Received"
     /\ req.body.kind \in {"object", "falsy"}
     /\ \/ req.body.question \in {"absent", "falsy"}
        \/ req.body.video_file.tag \in {"absent", "falsy"})
    => /\ pc = "Responded"
       /\ resp.status = 400
       /\ resp.kind = "json_error"
       /\ modelCalls = 0
       /\ opened = << >>
       /\ loadResult = "none"

\* C4 witness: a question without video_file was refused
C4_Witness ==
    /\ IsAskPost
    /\ req.body.kind = "object"
    /\ req.body.question = "truthy"
    /\ req.body.video_file.tag = "absent"
    /\ pc = "Responded"
    /\ resp.status = 400

\* the request lacks a required field
MissingFields ==
    /\ req.body.kind = "object"
    /\ \/ req.body.question \in {"absent", "falsy"}
       \/ req.body.video_file.tag \in {"absent", "falsy"}

\* the model call of /ask failed
AskUpstreamFailed ==
    req.route = "/ask" /\ modelCalls = 1 /\ pc = "Responded" /\ resp.kind = "json_error"

IsTraversal(name) == HasSlash(name) \/ name \in {<<".">>, <<".", ".">>}

\* the path names a direct child of the data directory
IsDirectChild(path) ==
    /\ Len(path) > Len(JSON_DATA_DIR) + 1
    /\ SubSeq(path, 1, Len(JSON_DATA_DIR) + 1) = JSON_DATA_DIR \o <<"/">>
    /\ LET child == SubSeq(path, Len(JSON_DATA_DIR) + 2, Len(path))
       IN  ~IsTraversal(child)

\* C6 (as claimed): a filename with a path separator, and the names "." and
\* "..", make load_video_context raise ValueError before any open(); so every
\* path handed to open() names a direct child of the data directory.
C6_Claim ==
    /\ (/\ loadResult # "none"
        /\ req.body.video_file.tag = "str"
        /\ IsTraversal(req.body.video_file.name))
       => (loadResult = "ValueError" /\ opened = << >>)
    /\ \A i \in 1..Len(opened) : IsDirectChild(opened[i])

\* the entry `name` of the data directory as open() finds it
EntryNow(name) ==
    IF ~dirExists THEN "absent"
    ELSE IF name \in {<<".">>, <<".", ".">>} THEN "dir"
    ELSE IF name \in TrackedFiles THEN fs[name]
    ELSE "absent"

\* C7: on /ask a video_file that passes the filename check and is missing is
\* answered 404 (FileNotFoundError), one that is no valid JSON is answered 404
\* (JSONDecodeError), in both cases with a JSON error and without a model call.
C7_Answer ==
    (req.route = "/ask" /\ loadResult \in {"FileNotFoundError", "JSONDecodeError"})
    => /\ pc = "Responded"
       /\ resp.status = 404
       /\ resp.kind = "json_error"
       /\ resp.payload = loadResult
       /\ modelCalls = 0

\* C7: the load of every request reads the data directory as it is at that
\* moment: a missing file raises FileNotFoundError, a file that is no JSON
\* raises JSONDecodeError, and a JSON file gives the document it now holds.
C7_Fresh ==
    [][(/\ pc = "Validated"
        /\ pc' # "Validated"
        /\ req.body.video_file.tag = "str"
        /\ ~HasSlash(req.body.video_file.name))
       => LET k == EntryNow(req.body.video_file.name)
          IN  /\ k = "absent"  => loadResult' = "FileNotFoundError"
              /\ k = "invalid" => loadResult' = "JSONDecodeError"
              /\ k \in {"doc1", "doc2"} =>
                    (loadResult' = "ok" /\ ctx'.json = k /\ pc' = "ContextLoaded")
              /\ opened' = <<JSON_DATA_DIR \o <<"/">> \o req.body.video_file.name>>]_vars

C8_Theorem ==
    (req.method = "OPTIONS" /\ pc # "Received" /\ pc # "Idle")
    => /\ pc = "Responded"
       /\ resp.status = 200
       /\ resp.kind = "empty"
       /\ {"Access-Control-Allow-Origin", "Access-Control-Allow-Headers",
           "Access-Control-Allow-Methods"} \subseteq resp.headers
       /\ ~parsed
       /\ ~listed
       /\ opened = << >>
       /\ loadResult = "none"
       /\ modelCalls = 0

\* C8 witness: a preflight on /ask-streaming that carries an unparseable body
C8_Witness ==
    /\ req.method = "OPTIONS"
    /\ req.route = "/ask-streaming"
    /\ req.body.kind = "malformed"
    /\ pc = "Responded"
    /\ resp.kind = "empty"

\* the lines of the entries among the first n attempts that succeeded
RECURSIVE SucceededLines(_)
SucceededLines(n) ==
    IF n = 0 THEN << >>
    ELSE SucceededLines(n - 1) \o
         (IF attempts[n].outcome = "ok"
          THEN <<thumbnail_line(VIDEOS_DATA[attempts[n].entry].title)>>
          ELSE << >>)

\* C9 (as claimed): however the invocation fails for an entry, the script goes
\* on: the entries are attempted once each in catalog order, the script never
\* stops before its summary, and the list holds the lines of the entries that
\* succeeded, in catalog order.
C9_Claim ==
    /\ ctPc # "crashed"
    /\ Len(attempts) = ctI
    /\ \A i \in 1..Len(attempts) : attempts[i].entry = i
    /\ html_thumbnail_paths = SucceededLines(Len(attempts))
    /\ ctPc = "done" => Len(attempts) = Len(VIDEOS_DATA)

\* C9, the part the script keeps: up to the first invocation that cannot be
\* started, entries are attempted in catalog order and the list holds the
\* lines of those that succeeded.
C9_Order ==
    /\ Len(attempts) = ctI
    /\ \A i \in 1..Len(attempts) : attempts[i].entry = i
    /\ html_thumbnail_paths = SucceededLines(Len(attempts))
    /\ ctPc = "done" => Len(attempts) = Len(VIDEOS_DATA)
    /\ ctPc = "crashed" => attempts[Len(attempts)].outcome = "OSError"

\* the handler got as far as the model call
ReachedModelCall ==
    \/ req.route = "/ask" /\ pc = "Responded" /\ prompt # NoPrompt
    \/ req.route = "/ask-streaming" /\ pc \in {"Completed", "ErroredMidStream"}

\* C10, the count: a request calls the model at most once, only with the
\* prompt built from a loaded context, and exactly once when it got that far.
C10_OneCall ==
    /\ modelCalls <= 1
    /\ modelCalls = 1 => (IsAskPost /\ loadResult = "ok" /\ prompt # NoPrompt)
    /\ ReachedModelCall => modelCalls = 1

\* C10 (as claimed): at most one model call per request, exactly one when
\* validation, load and prompt succeeded, none otherwise; a failed call is not
\* retried and ends /ask with a 500 JSON error, /ask-streaming with the notice.
C10_Claim ==
    /\ C10_OneCall
    /\ AskUpstreamFailed => resp.status = 500
    /\ pc = "ErroredMidStream" => NoticesOf(emitted) # << >>

====
